---- MODULE Spec2Model ----
(***************************************************************************)
(* Model of the parser-combinator engine of src/classes/StrParse.ts.       *)
(*                                                                         *)
(* A string is a sequence of UTF-16 code units, each written as a short    *)
(* TLA+ string.  A parse state is the record i_ParserState.  A Parser is   *)
(* a record naming its constructor and the values its closure captured;    *)
(* Apply(p, st) is p.parserStateTransformerFn(st).  Apply returns the      *)
(* state the transformer returns, the parser as it is after the call (str  *)
(* reassigns the captured variable s), and how the call ended: "ok" when   *)
(* it returned, "hang" when a loop never ends, "throw" when it threw.      *)
(***************************************************************************)
EXTENDS Integers, Sequences, FiniteSets, TLC

(***************************************************************************)
(* Bounds of the model.                                                    *)
(***************************************************************************)
MaxLen == 3          \* longest enumerated input string
MaxExtra == 4        \* longest input string given by name
MaxRerunLen == 1     \* longest input string of a second run
MaxIter == 2 * (MaxLen + MaxExtra) + 2   \* more iterations than a loop that
                                         \* ends can make (see manyLoop)

(***************************************************************************)
(* Strings.                                                                *)
(***************************************************************************)
Min(a, b) == IF a < b THEN a ELSE b

\* String.prototype.slice(index) for 0 <= index
slice(target, index) == SubSeq(target, index + 1, Len(target))

\* String.prototype.slice(from, to) for 0 <= from <= to
slice2(target, from, to) == SubSeq(target, from + 1, Min(to, Len(target)))

\* String.prototype.startsWith
startsWith(t, s) == Len(s) <= Len(t) /\ SubSeq(t, 1, Len(s)) = s

\* String.prototype.toLowerCase on one code unit.  U+0130 (capital I with
\* dot above) lower-cases to the two code units U+0069 U+0307.
LowerChar(c) ==
    CASE c = "A" -> <<"a">>
      [] c = "B" -> <<"b">>
      [] c = "U+0130" -> <<"i", "U+0307">>
      [] OTHER -> <<c>>

RECURSIVE toLowerCase(_)
toLowerCase(s) ==
    IF s = <<>> THEN <<>> ELSE LowerChar(Head(s)) \o toLowerCase(Tail(s))

Letters == {"a", "b", "i", "x", "y", "A", "B"}      \* [A-Za-z]
Digits == {"1", "2", "4"}                           \* [0-9]

\* length of the longest prefix of t made of code units of cls
RECURSIVE PrefixLen(_, _)
PrefixLen(t, cls) ==
    IF t # <<>> /\ Head(t) \in cls THEN 1 + PrefixLen(Tail(t), cls) ELSE 0

(***************************************************************************)
(* Result and error values.                                                *)
(***************************************************************************)
Null == [t |-> "null"]
StrVal(s) == [t |-> "str", v |-> s]
ListVal(l) == [t |-> "list", l |-> l]
Val(x) == [t |-> "val", x |-> x]

(***************************************************************************)
(* Parse state and its update helpers.                                     *)
(***************************************************************************)
initialState == [target |-> <<>>, index |-> 0, result |-> Null,
                 isError |-> FALSE, error |-> Null]

updateParserState(state, index, result) ==
    [state EXCEPT !.index = index, !.result = result]

updateParserResult(state, result) == [state EXCEPT !.result = result]

updateParserError(state, errorMsg) ==
    [state EXCEPT !.isError = TRUE, !.error = errorMsg]

(***************************************************************************)
(* Parser values.                                                          *)
(***************************************************************************)
str(s, caseSensitive) == [kind |-> "str", s |-> s, caseSensitive |-> caseSensitive]
regex(cls, min) == [kind |-> "regex", cls |-> cls, min |-> min]
letters == [kind |-> "letters"]
digits == [kind |-> "digits"]
sequenceOf(parsers) == [kind |-> "sequenceOf", parsers |-> parsers]
choice(parsers) == [kind |-> "choice", parsers |-> parsers]
many(parser) == [kind |-> "many", parser |-> parser]
many1(parser) == [kind |-> "many1", parser |-> parser]
sepBy(separatorParser, valueParser) ==
    [kind |-> "sepBy", separatorParser |-> separatorParser, valueParser |-> valueParser]
sepBy1(separatorParser, valueParser) ==
    [kind |-> "sepBy1", separatorParser |-> separatorParser, valueParser |-> valueParser]
boolean(parser) == [kind |-> "boolean", parser |-> parser]
lazy(parserThunk) == [kind |-> "lazy", parserThunk |-> parserThunk]
fail(errMsg) == [kind |-> "fail", errMsg |-> errMsg]
succeed(value) == [kind |-> "succeed", value |-> value]
map(parser, fn) == [kind |-> "map", parser |-> parser, fn |-> fn]
chain(parser, fn) == [kind |-> "chain", parser |-> parser, fn |-> fn]
errorMap(parser, fn) == [kind |-> "errorMap", parser |-> parser, fn |-> fn]
between(leftParser, rightParser, contentParser) ==
    map(sequenceOf(<<leftParser, contentParser, rightParser>>), "second")
contextual(generatorFn) ==
    chain(succeed(Null), [f |-> "contextual", generatorFn |-> generatorFn])

\* a value that is not an instance of Parser
NotAParser == [kind |-> "notAParser"]

(***************************************************************************)
(* What a call of a transformer produces.                                  *)
(***************************************************************************)
Ret(st, p) == [status |-> "ok", st |-> st, p |-> p]
Abort(status, st, p) == [status |-> status, st |-> st, p |-> p]

(***************************************************************************)
(* The functions passed to map, chain, errorMap, lazy and contextual.      *)
(***************************************************************************)
\* MapFn with between's projection taking results[0]
MapFnFirst(fn, result) ==
    IF fn = "second" THEN result.l[1] ELSE [t |-> "mapped", fn |-> fn, of |-> result]

\* fn of map: results => results[1] (between), or a function whose value
\* records its argument
MapFn(fn, result) ==
    IF fn = "second" THEN result.l[2] ELSE [t |-> "mapped", fn |-> fn, of |-> result]

\* fn of errorMap
ErrorFn(fn, error, index) == [msg |-> "errorMap", fn |-> fn, of |-> error, index |-> index]

\* the parsers lazy's thunks refer to
Grammar(name) ==
    CASE name = "parens" ->
           choice(<<sequenceOf(<<str(<<"(">>, TRUE), lazy("parens"), str(<<")">>, TRUE)>>),
                    sequenceOf(<<str(<<"(">>, TRUE), str(<<")">>, TRUE)>>)>>)
      [] name = "digits" -> digits
      [] OTHER -> fail([msg |-> "undefined"])

\* iterator.next(nextValue) of the generator: values are the results sent in
\* so far, the first call's argument excluded
IteratorNext(generatorFn, values) ==
    IF Len(values) < Len(generatorFn.yields)
    THEN [done |-> FALSE, value |-> generatorFn.yields[Len(values) + 1]]
    ELSE [done |-> TRUE,
          value |-> IF generatorFn.returns = "values" THEN ListVal(values)
                    ELSE Val(generatorFn.returns)]

\* runStep that hands a yield that is not a Parser on as a parser that fails
runStepReturnsFailure(generatorFn, values) ==
    LET iteratorResult == IteratorNext(generatorFn, values)
        nextParser == iteratorResult.value
    IN  IF iteratorResult.done
        THEN [thrown |-> FALSE, parser |-> succeed(iteratorResult.value)]
        ELSE IF nextParser.kind = "notAParser"
        THEN [thrown |-> FALSE, parser |-> fail([msg |-> "contextual: not a Parser"])]
        ELSE [thrown |-> FALSE,
              parser |-> chain(nextParser, [f |-> "runStep", generatorFn |-> generatorFn,
                                            values |-> values])]

\* runStep of contextual: the parser it returns, or thrown
runStep(generatorFn, values) ==
    LET iteratorResult == IteratorNext(generatorFn, values)
        nextParser == iteratorResult.value
    IN  IF iteratorResult.done
        THEN [thrown |-> FALSE, parser |-> succeed(iteratorResult.value)]
        ELSE IF nextParser.kind = "notAParser"
        THEN [thrown |-> TRUE, parser |-> NotAParser]
        ELSE [thrown |-> FALSE,
              parser |-> chain(nextParser, [f |-> "runStep", generatorFn |-> generatorFn,
                                            values |-> values])]

\* fn of chain whose runStep resumes the generator without the step's result
ChainFnForgetsResult(fn, result) ==
    CASE fn.f = "const" -> [thrown |-> FALSE, parser |-> fn.parser]
      [] fn.f = "same" -> [thrown |-> FALSE,
                            parser |-> IF result.t = "str" THEN str(result.v, TRUE)
                                       ELSE fail([msg |-> "not a string"])]
      [] fn.f = "contextual" -> runStep(fn.generatorFn, <<>>)
      [] fn.f = "runStep" -> runStep(fn.generatorFn, Append(fn.values, Null))

\* fn of chain
ChainFn(fn, result) ==
    CASE fn.f = "const" -> [thrown |-> FALSE, parser |-> fn.parser]
      [] fn.f = "same" -> [thrown |-> FALSE,
                            parser |-> IF result.t = "str" THEN str(result.v, TRUE)
                                       ELSE fail([msg |-> "not a string"])]
      [] fn.f = "contextual" -> runStep(fn.generatorFn, <<>>)
      [] fn.f = "runStep" -> runStep(fn.generatorFn, Append(fn.values, result))

(***************************************************************************)
(* The transformers.                                                       *)
(***************************************************************************)
RECURSIVE Apply(_, _)
RECURSIVE sequenceOfLoop(_, _, _, _)
RECURSIVE choiceLoop(_, _, _)
RECURSIVE manyLoop(_, _, _, _)
RECURSIVE many1Loop(_, _, _, _)
RECURSIVE sepByLoop(_, _, _, _, _)
RECURSIVE sepBy1Loop(_, _, _, _, _)
RECURSIVE choiceLoopLastWins(_, _, _)
RECURSIVE choiceLoopThreads(_, _, _)
RECURSIVE manyLoopKeepsFailed(_, _, _, _)
RECURSIVE sepByLoopGivesBack(_, _, _, _, _)
RECURSIVE sepBy1LoopKeepsFailed(_, _, _, _, _)

\* strFn without the test for the end of the input
strFnNoEndCheck(p, parserState) ==
    LET target == parserState.target
        index == parserState.index
        slicedTarget == slice(IF p.caseSensitive THEN target ELSE toLowerCase(target), index)
        s2 == IF ~p.caseSensitive THEN toLowerCase(p.s) ELSE p.s
        p2 == [p EXCEPT !.s = s2]
    IN  IF parserState.isError THEN Ret(parserState, p)
        ELSE IF startsWith(slicedTarget, s2)
        THEN Ret(updateParserState(parserState, index + Len(s2), StrVal(s2)), p2)
        ELSE Ret(updateParserError(parserState,
                    [msg |-> "str: no match", s |-> s2, got |-> slice2(target, index, index + 10)]),
                 p2)

\* strFn counting the index it returns from the start of the input
strFnFromStart(p, parserState) ==
    LET target == parserState.target
        index == parserState.index
        slicedTarget == slice(IF p.caseSensitive THEN target ELSE toLowerCase(target), index)
        s2 == IF ~p.caseSensitive THEN toLowerCase(p.s) ELSE p.s
        p2 == [p EXCEPT !.s = s2]
    IN  IF parserState.isError THEN Ret(parserState, p)
        ELSE IF Len(slicedTarget) = 0
        THEN Ret(updateParserError(parserState, [msg |-> "str: end of input", s |-> p.s]), p)
        ELSE IF startsWith(slicedTarget, s2)
        THEN Ret(updateParserState(parserState, Len(s2), StrVal(s2)), p2)
        ELSE Ret(updateParserError(parserState,
                    [msg |-> "str: no match", s |-> s2, got |-> slice2(target, index, index + 10)]),
                 p2)

strFn(p, parserState) ==
    LET target == parserState.target
        index == parserState.index
        slicedTarget == slice(IF p.caseSensitive THEN target ELSE toLowerCase(target), index)
        s2 == IF ~p.caseSensitive THEN toLowerCase(p.s) ELSE p.s
        p2 == [p EXCEPT !.s = s2]
    IN  IF parserState.isError THEN Ret(parserState, p)
        ELSE IF Len(slicedTarget) = 0
        THEN Ret(updateParserError(parserState, [msg |-> "str: end of input", s |-> p.s]), p)
        ELSE IF startsWith(slicedTarget, s2)
        THEN Ret(updateParserState(parserState, index + Len(s2), StrVal(s2)), p2)
        ELSE Ret(updateParserError(parserState,
                    [msg |-> "str: no match", s |-> s2, got |-> slice2(target, index, index + 10)]),
                 p2)

\* regex, letters and digits: the pattern is ^[cls]+ (min = 1) or ^[cls]* (min = 0)
PatternFn(p, parserState, name, cls, min) ==
    LET index == parserState.index
        slicedTarget == slice(parserState.target, index)
        n == PrefixLen(slicedTarget, cls)
    IN  IF parserState.isError THEN Ret(parserState, p)
        ELSE IF Len(slicedTarget) = 0
        THEN Ret(updateParserError(parserState, [msg |-> "end of input", parser |-> name]), p)
        ELSE IF n >= min
        THEN Ret(updateParserState(parserState, index + n, StrVal(SubSeq(slicedTarget, 1, n))), p)
        ELSE Ret(updateParserError(parserState,
                    [msg |-> "could not match", parser |-> name, index |-> index]), p)

regexFn(p, parserState) == PatternFn(p, parserState, "regex", p.cls, p.min)
lettersFn(p, parserState) == PatternFn(p, parserState, "letters", Letters, 1)
digitsFn(p, parserState) == PatternFn(p, parserState, "digits", Digits, 1)

\* the for loop of sequenceOf from its i-th parser on
sequenceOfLoop(parsers, i, nextState, results) ==
    IF i > Len(parsers)
    THEN [status |-> "ok", st |-> nextState, results |-> results, parsers |-> parsers]
    ELSE LET r == Apply(parsers[i], nextState)
             parsers2 == [parsers EXCEPT ![i] = r.p]
         IN  IF r.status # "ok"
             THEN [status |-> r.status, st |-> nextState, results |-> results,
                   parsers |-> parsers2]
             ELSE sequenceOfLoop(parsers2, i + 1, r.st, Append(results, r.st.result))

\* sequenceOfFn reporting a failed step at the index the sequence started at
sequenceOfFnResets(p, parserState) ==
    IF parserState.isError THEN Ret(parserState, p)
    ELSE LET l == sequenceOfLoop(p.parsers, 1, parserState, <<>>)
             p2 == [p EXCEPT !.parsers = l.parsers]
         IN  IF l.status # "ok" THEN Abort(l.status, l.st, p2)
             ELSE IF l.st.isError THEN Ret(updateParserError(parserState, l.st.error), p2)
             ELSE Ret(updateParserResult(l.st, ListVal(l.results)), p2)

sequenceOfFn(p, parserState) ==
    IF parserState.isError THEN Ret(parserState, p)
    ELSE LET l == sequenceOfLoop(p.parsers, 1, parserState, <<>>)
             p2 == [p EXCEPT !.parsers = l.parsers]
         IN  IF l.status # "ok" THEN Abort(l.status, l.st, p2)
             ELSE IF l.st.isError THEN Ret(l.st, p2)
             ELSE Ret(updateParserResult(l.st, ListVal(l.results)), p2)

\* choiceLoop handing the state of a failed alternative to the next one
choiceLoopThreads(parsers, i, parserState) ==
    IF i > Len(parsers)
    THEN [status |-> "ok", found |-> FALSE, st |-> parserState, parsers |-> parsers]
    ELSE LET r == Apply(parsers[i], parserState)
             parsers2 == [parsers EXCEPT ![i] = r.p]
         IN  IF r.status # "ok"
             THEN [status |-> r.status, found |-> FALSE, st |-> parserState,
                   parsers |-> parsers2]
             ELSE IF ~r.st.isError
             THEN [status |-> "ok", found |-> TRUE, st |-> r.st, parsers |-> parsers2]
             ELSE choiceLoopThreads(parsers2, i + 1, r.st)

\* choiceLoop without the early return: every parser runs, the last success wins
choiceLoopLastWins(parsers, i, parserState) ==
    IF i > Len(parsers)
    THEN [status |-> "ok", found |-> FALSE, st |-> parserState, parsers |-> parsers]
    ELSE LET r == Apply(parsers[i], parserState)
             parsers2 == [parsers EXCEPT ![i] = r.p]
             rest == choiceLoopLastWins(parsers2, i + 1, parserState)
         IN  IF r.status # "ok"
             THEN [status |-> r.status, found |-> FALSE, st |-> parserState,
                   parsers |-> parsers2]
             ELSE IF rest.status # "ok" \/ rest.found THEN rest
             ELSE IF ~r.st.isError
             THEN [status |-> "ok", found |-> TRUE, st |-> r.st, parsers |-> rest.parsers]
             ELSE rest

\* the for loop of choice from its i-th parser on
choiceLoop(parsers, i, parserState) ==
    IF i > Len(parsers)
    THEN [status |-> "ok", found |-> FALSE, st |-> parserState, parsers |-> parsers]
    ELSE LET r == Apply(parsers[i], parserState)
             parsers2 == [parsers EXCEPT ![i] = r.p]
         IN  IF r.status # "ok"
             THEN [status |-> r.status, found |-> FALSE, st |-> parserState,
                   parsers |-> parsers2]
             ELSE IF ~r.st.isError
             THEN [status |-> "ok", found |-> TRUE, st |-> r.st, parsers |-> parsers2]
             ELSE choiceLoop(parsers2, i + 1, parserState)

\* choiceFn marking the error on the state of the last failed alternative
choiceFnLeaks(p, parserState) ==
    IF parserState.isError THEN Ret(parserState, p)
    ELSE LET l == choiceLoop(p.parsers, 1, parserState)
             p2 == [p EXCEPT !.parsers = l.parsers]
             last == IF Len(p.parsers) = 0 THEN parserState
                     ELSE Apply(p.parsers[Len(p.parsers)], parserState).st
         IN  IF l.status # "ok" THEN Abort(l.status, l.st, p2)
             ELSE IF l.found THEN Ret(l.st, p2)
             ELSE Ret(updateParserError(last,
                         [msg |-> "choice: unable to match", index |-> parserState.index]), p2)

choiceFn(p, parserState) ==
    IF parserState.isError THEN Ret(parserState, p)
    ELSE LET l == choiceLoop(p.parsers, 1, parserState)
             p2 == [p EXCEPT !.parsers = l.parsers]
         IN  IF l.status # "ok" THEN Abort(l.status, l.st, p2)
             ELSE IF l.found THEN Ret(l.st, p2)
             ELSE Ret(updateParserError(parserState,
                         [msg |-> "choice: unable to match", index |-> parserState.index]), p2)

\* manyLoop assigning nextState the state of the failing attempt, as many1 does
manyLoopKeepsFailed(parser, nextState, results, n) ==
    IF n >= MaxIter
    THEN [status |-> "hang", st |-> nextState, results |-> results, parser |-> parser]
    ELSE LET r == Apply(parser, nextState)
         IN  IF r.status # "ok"
             THEN [status |-> r.status, st |-> nextState, results |-> results, parser |-> r.p]
             ELSE IF ~r.st.isError
             THEN manyLoopKeepsFailed(r.p, r.st, Append(results, r.st.result), n + 1)
             ELSE [status |-> "ok", st |-> r.st, results |-> results, parser |-> r.p]

\* the while loop of many after n iterations.  A loop that has run MaxIter
\* iterations visits a cursor position twice and never ends: "hang".
manyLoop(parser, nextState, results, n) ==
    IF n >= MaxIter
    THEN [status |-> "hang", st |-> nextState, results |-> results, parser |-> parser]
    ELSE LET r == Apply(parser, nextState)
             testState == r.st
         IN  IF r.status # "ok"
             THEN [status |-> r.status, st |-> nextState, results |-> results, parser |-> r.p]
             ELSE IF ~testState.isError
             THEN manyLoop(r.p, testState, Append(results, testState.result), n + 1)
             ELSE [status |-> "ok", st |-> nextState, results |-> results, parser |-> r.p]

manyFn(p, parserState) ==
    IF parserState.isError THEN Ret(parserState, p)
    ELSE LET l == manyLoop(p.parser, parserState, <<>>, 0)
             p2 == [p EXCEPT !.parser = l.parser]
         IN  IF l.status # "ok" THEN Abort(l.status, l.st, p2)
             ELSE Ret(updateParserResult(l.st, ListVal(l.results)), p2)

\* the while loop of many1 after n iterations: nextState is assigned the
\* state of every attempt, the failing one included
many1Loop(parser, nextState, results, n) ==
    IF n >= MaxIter
    THEN [status |-> "hang", st |-> nextState, results |-> results, parser |-> parser]
    ELSE LET r == Apply(parser, nextState)
         IN  IF r.status # "ok"
             THEN [status |-> r.status, st |-> nextState, results |-> results, parser |-> r.p]
             ELSE IF ~r.st.isError
             THEN many1Loop(r.p, r.st, Append(results, r.st.result), n + 1)
             ELSE [status |-> "ok", st |-> r.st, results |-> results, parser |-> r.p]

many1Fn(p, parserState) ==
    IF parserState.isError THEN Ret(parserState, p)
    ELSE LET l == many1Loop(p.parser, parserState, <<>>, 0)
             p2 == [p EXCEPT !.parser = l.parser]
         IN  IF l.status # "ok" THEN Abort(l.status, l.st, p2)
             ELSE IF Len(l.results) = 0
             THEN Ret(updateParserError(parserState,
                         [msg |-> "many1: unable to match", index |-> parserState.index]), p2)
             ELSE Ret(updateParserResult(l.st, ListVal(l.results)), p2)

\* sepByLoop giving back a separator that no value follows
sepByLoopGivesBack(separatorParser, valueParser, nextState, results, n) ==
    IF n >= MaxIter
    THEN [status |-> "hang", st |-> nextState, results |-> results,
          separatorParser |-> separatorParser, valueParser |-> valueParser]
    ELSE LET v == Apply(valueParser, nextState)
             results2 == Append(results, v.st.result)
             sp == Apply(separatorParser, v.st)
             ahead == Apply(v.p, sp.st)
         IN  IF v.status # "ok"
             THEN [status |-> v.status, st |-> nextState, results |-> results,
                   separatorParser |-> separatorParser, valueParser |-> v.p]
             ELSE IF v.st.isError
             THEN [status |-> "ok", st |-> nextState, results |-> results,
                   separatorParser |-> separatorParser, valueParser |-> v.p]
             ELSE IF sp.status # "ok"
             THEN [status |-> sp.status, st |-> v.st, results |-> results2,
                   separatorParser |-> sp.p, valueParser |-> v.p]
             ELSE IF sp.st.isError \/ ahead.st.isError
             THEN [status |-> "ok", st |-> v.st, results |-> results2,
                   separatorParser |-> sp.p, valueParser |-> v.p]
             ELSE sepByLoopGivesBack(sp.p, v.p, sp.st, results2, n + 1)

\* the while (true) loop of sepBy after n iterations
sepByLoop(separatorParser, valueParser, nextState, results, n) ==
    IF n >= MaxIter
    THEN [status |-> "hang", st |-> nextState, results |-> results,
          separatorParser |-> separatorParser, valueParser |-> valueParser]
    ELSE LET v == Apply(valueParser, nextState)
             thingWeWantState == v.st
             results2 == Append(results, thingWeWantState.result)
             sp == Apply(separatorParser, thingWeWantState)
             separatorState == sp.st
         IN  IF v.status # "ok"
             THEN [status |-> v.status, st |-> nextState, results |-> results,
                   separatorParser |-> separatorParser, valueParser |-> v.p]
             ELSE IF thingWeWantState.isError
             THEN [status |-> "ok", st |-> nextState, results |-> results,
                   separatorParser |-> separatorParser, valueParser |-> v.p]
             ELSE IF sp.status # "ok"
             THEN [status |-> sp.status, st |-> thingWeWantState, results |-> results2,
                   separatorParser |-> sp.p, valueParser |-> v.p]
             ELSE IF separatorState.isError
             THEN [status |-> "ok", st |-> thingWeWantState, results |-> results2,
                   separatorParser |-> sp.p, valueParser |-> v.p]
             ELSE sepByLoop(sp.p, v.p, separatorState, results2, n + 1)

sepByFn(p, parserState) ==
    IF parserState.isError THEN Ret(parserState, p)
    ELSE LET l == sepByLoop(p.separatorParser, p.valueParser, parserState, <<>>, 0)
             p2 == [p EXCEPT !.separatorParser = l.separatorParser,
                             !.valueParser = l.valueParser]
         IN  IF l.status # "ok" THEN Abort(l.status, l.st, p2)
             ELSE Ret(updateParserResult(l.st, ListVal(l.results)), p2)

\* sepBy1Loop assigning nextState the state of the failing attempt, as many1 does
sepBy1LoopKeepsFailed(separatorParser, valueParser, nextState, results, n) ==
    IF n >= MaxIter
    THEN [status |-> "hang", st |-> nextState, results |-> results,
          separatorParser |-> separatorParser, valueParser |-> valueParser]
    ELSE LET v == Apply(valueParser, nextState)
             results2 == Append(results, v.st.result)
             sp == Apply(separatorParser, v.st)
         IN  IF v.status # "ok"
             THEN [status |-> v.status, st |-> nextState, results |-> results,
                   separatorParser |-> separatorParser, valueParser |-> v.p]
             ELSE IF v.st.isError
             THEN [status |-> "ok", st |-> v.st, results |-> results,
                   separatorParser |-> separatorParser, valueParser |-> v.p]
             ELSE IF sp.status # "ok"
             THEN [status |-> sp.status, st |-> v.st, results |-> results2,
                   separatorParser |-> sp.p, valueParser |-> v.p]
             ELSE IF sp.st.isError
             THEN [status |-> "ok", st |-> sp.st, results |-> results2,
                   separatorParser |-> sp.p, valueParser |-> v.p]
             ELSE sepBy1LoopKeepsFailed(sp.p, v.p, sp.st, results2, n + 1)

\* the while (true) loop of sepBy1 after n iterations
sepBy1Loop(separatorParser, valueParser, nextState, results, n) ==
    IF n >= MaxIter
    THEN [status |-> "hang", st |-> nextState, results |-> results,
          separatorParser |-> separatorParser, valueParser |-> valueParser]
    ELSE LET v == Apply(valueParser, nextState)
             thingWeWantState == v.st
             results2 == Append(results, thingWeWantState.result)
             sp == Apply(separatorParser, thingWeWantState)
             separatorState == sp.st
         IN  IF v.status # "ok"
             THEN [status |-> v.status, st |-> nextState, results |-> results,
                   separatorParser |-> separatorParser, valueParser |-> v.p]
             ELSE IF thingWeWantState.isError
             THEN [status |-> "ok", st |-> nextState, results |-> results,
                   separatorParser |-> separatorParser, valueParser |-> v.p]
             ELSE IF sp.status # "ok"
             THEN [status |-> sp.status, st |-> thingWeWantState, results |-> results2,
                   separatorParser |-> sp.p, valueParser |-> v.p]
             ELSE IF separatorState.isError
             THEN [status |-> "ok", st |-> thingWeWantState, results |-> results2,
                   separatorParser |-> sp.p, valueParser |-> v.p]
             ELSE sepBy1Loop(sp.p, v.p, separatorState, results2, n + 1)

sepBy1Fn(p, parserState) ==
    IF parserState.isError THEN Ret(parserState, p)
    ELSE LET l == sepBy1Loop(p.separatorParser, p.valueParser, parserState, <<>>, 0)
             p2 == [p EXCEPT !.separatorParser = l.separatorParser,
                             !.valueParser = l.valueParser]
         IN  IF l.status # "ok" THEN Abort(l.status, l.st, p2)
             ELSE IF Len(l.results) = 0
             THEN Ret(updateParserError(parserState,
                         [msg |-> "sepBy1: unable to capture", index |-> parserState.index]), p2)
             ELSE Ret(updateParserResult(l.st, ListVal(l.results)), p2)

\* booleanFn setting the null result on the state of the failed attempt
booleanFnKeepsFailed(p, parserState) ==
    IF parserState.isError THEN Ret(parserState, p)
    ELSE LET r == Apply(p.parser, parserState)
             p2 == [p EXCEPT !.parser = r.p]
         IN  IF r.status # "ok" THEN Abort(r.status, parserState, p2)
             ELSE IF ~r.st.isError THEN Ret(r.st, p2)
             ELSE Ret(updateParserResult(r.st, Null), p2)

booleanFn(p, parserState) ==
    IF parserState.isError THEN Ret(parserState, p)
    ELSE LET r == Apply(p.parser, parserState)
             testState == r.st
             p2 == [p EXCEPT !.parser = r.p]
         IN  IF r.status # "ok" THEN Abort(r.status, parserState, p2)
             ELSE IF ~testState.isError THEN Ret(testState, p2)
             ELSE Ret(updateParserResult(parserState, Null), p2)

\* the thunk builds the parser anew on every call
lazyFn(p, parserState) ==
    LET r == Apply(Grammar(p.parserThunk), parserState)
    IN  [r EXCEPT !.p = p]

failFn(p, parserState) == Ret(updateParserError(parserState, p.errMsg), p)

\* succeedFn returning a success whatever state it is called with
succeedFnRecovers(p, parserState) ==
    Ret([parserState EXCEPT !.result = p.value, !.isError = FALSE, !.error = Null], p)

succeedFn(p, parserState) == Ret(updateParserResult(parserState, p.value), p)

\* mapFn setting the mapped result on the state it was called with
mapFnFromOrigin(p, parserState) ==
    LET r == Apply(p.parser, parserState)
        p2 == [p EXCEPT !.parser = r.p]
    IN  IF r.status # "ok" THEN Abort(r.status, parserState, p2)
        ELSE IF r.st.isError THEN Ret(r.st, p2)
        ELSE Ret(updateParserResult(parserState, MapFn(p.fn, r.st.result)), p2)

mapFn(p, parserState) ==
    LET r == Apply(p.parser, parserState)
        nextState == r.st
        p2 == [p EXCEPT !.parser = r.p]
    IN  IF r.status # "ok" THEN Abort(r.status, parserState, p2)
        ELSE IF nextState.isError THEN Ret(nextState, p2)
        ELSE Ret(updateParserResult(nextState, MapFn(p.fn, nextState.result)), p2)

\* chainFn applying the selected parser to the state it was called with
chainFnFromOrigin(p, parserState) ==
    LET r == Apply(p.parser, parserState)
        p2 == [p EXCEPT !.parser = r.p]
        nextParser == ChainFn(p.fn, r.st.result)
        r2 == Apply(nextParser.parser, parserState)
    IN  IF r.status # "ok" THEN Abort(r.status, parserState, p2)
        ELSE IF r.st.isError THEN Ret(r.st, p2)
        ELSE IF nextParser.thrown THEN Abort("throw", r.st, p2)
        ELSE [r2 EXCEPT !.p = p2]

\* chainFn without the test of isError: fn is called after a failure too
chainFnCallsAlways(p, parserState) ==
    LET r == Apply(p.parser, parserState)
        p2 == [p EXCEPT !.parser = r.p]
        nextParser == ChainFn(p.fn, r.st.result)
        r2 == Apply(nextParser.parser, r.st)
    IN  IF r.status # "ok" THEN Abort(r.status, parserState, p2)
        ELSE IF nextParser.thrown THEN Abort("throw", r.st, p2)
        ELSE [r2 EXCEPT !.p = p2]

\* the parser fn returns is built by that call and dropped after it
chainFn(p, parserState) ==
    LET r == Apply(p.parser, parserState)
        nextState == r.st
        p2 == [p EXCEPT !.parser = r.p]
        nextParser == ChainFn(p.fn, nextState.result)
        r2 == Apply(nextParser.parser, nextState)
    IN  IF r.status # "ok" THEN Abort(r.status, parserState, p2)
        ELSE IF nextState.isError THEN Ret(nextState, p2)
        ELSE IF nextParser.thrown THEN Abort("throw", nextState, p2)
        ELSE [r2 EXCEPT !.p = p2]

\* errorMapFn marking the new error on the state it was called with
errorMapFnFromOrigin(p, parserState) ==
    LET r == Apply(p.parser, parserState)
        p2 == [p EXCEPT !.parser = r.p]
    IN  IF r.status # "ok" THEN Abort(r.status, parserState, p2)
        ELSE IF ~r.st.isError THEN Ret(r.st, p2)
        ELSE Ret(updateParserError(parserState, ErrorFn(p.fn, r.st.error, r.st.index)), p2)

errorMapFn(p, parserState) ==
    LET r == Apply(p.parser, parserState)
        nextState == r.st
        p2 == [p EXCEPT !.parser = r.p]
    IN  IF r.status # "ok" THEN Abort(r.status, parserState, p2)
        ELSE IF ~nextState.isError THEN Ret(nextState, p2)
        ELSE Ret(updateParserError(nextState, ErrorFn(p.fn, nextState.error, nextState.index)), p2)

\* p.parserStateTransformerFn(parserState)
Apply(p, parserState) ==
    CASE p.kind = "str" -> strFn(p, parserState)
      [] p.kind = "regex" -> regexFn(p, parserState)
      [] p.kind = "letters" -> lettersFn(p, parserState)
      [] p.kind = "digits" -> digitsFn(p, parserState)
      [] p.kind = "sequenceOf" -> sequenceOfFn(p, parserState)
      [] p.kind = "choice" -> choiceFn(p, parserState)
      [] p.kind = "many" -> manyFn(p, parserState)
      [] p.kind = "many1" -> many1Fn(p, parserState)
      [] p.kind = "sepBy" -> sepByFn(p, parserState)
      [] p.kind = "sepBy1" -> sepBy1Fn(p, parserState)
      [] p.kind = "boolean" -> booleanFn(p, parserState)
      [] p.kind = "lazy" -> lazyFn(p, parserState)
      [] p.kind = "fail" -> failFn(p, parserState)
      [] p.kind = "succeed" -> succeedFn(p, parserState)
      [] p.kind = "map" -> mapFn(p, parserState)
      [] p.kind = "chain" -> chainFn(p, parserState)
      [] p.kind = "errorMap" -> errorMapFn(p, parserState)

(***************************************************************************)
(* The parsers and the inputs of the model.                                *)
(***************************************************************************)
Alphabet == {"a", "1", ","}

RECURSIVE StringsOfLen(_)
StringsOfLen(n) ==
    IF n = 0 THEN {<<>>}
    ELSE {Append(t, c) : t \in StringsOfLen(n - 1), c \in Alphabet}

\* the strings of n parentheses
RECURSIVE ParensOfLen(_)
ParensOfLen(n) ==
    IF n = 0 THEN {<<>>}
    ELSE {Append(t, c) : t \in ParensOfLen(n - 1), c \in {"(", ")"}}

Targets ==
    UNION {StringsOfLen(n) : n \in 0..MaxLen}
    \cup UNION {ParensOfLen(n) : n \in 1..MaxExtra}
    \cup {<<"A">>, <<"A", "a">>, <<"U+0130">>, <<"a", "U+0130">>}
    \cup {<<"y">>, <<"a", "b">>, <<"A", "B">>, <<"x", "y">>, <<"a", "b", "a">>,
          <<"4", "2", ",">>, <<"(", "4", "2", ")">>}

strA == str(<<"a">>, TRUE)
strComma == str(<<",">>, TRUE)
strEmpty == str(<<>>, TRUE)
strAnyCase == str(<<"A">>, FALSE)
strDotted == str(<<"U+0130">>, FALSE)
strX == str(<<"x">>, TRUE)
strAb == str(<<"a", "b">>, TRUE)
strAB == str(<<"A", "B">>, FALSE)
succeedV == succeed(Val("v"))
failBoom == fail([msg |-> "boom"])
regexStar == regex({"a"}, 0)
seqADigits == sequenceOf(<<strA, digits>>)
seqCommaA == sequenceOf(<<strComma, strA>>)
genTwo == [yields |-> <<strA, digits>>, returns |-> "values"]
genBad == [yields |-> <<strA, NotAParser>>, returns |-> "values"]
genThrows == [yields |-> <<NotAParser>>, returns |-> "values"]

Atoms == {strA, strComma, strEmpty, strAnyCase, strDotted, digits, letters,
          succeedV, failBoom, regexStar, strAb, strAB}

Bodies == {strA, digits, strEmpty, succeedV, strAnyCase, seqADigits, failBoom, regexStar}

Sequences ==
    {sequenceOf(<<x, y>>) :
        x \in {strA, digits, failBoom},
        y \in {strComma, succeedV, failBoom, errorMap(strA, "e"), contextual(genTwo),
               strAnyCase}}
    \cup {sequenceOf(<<>>), sequenceOf(<<strA, digits, succeedV>>),
          sequenceOf(<<strA, strComma, digits>>)}

Choices ==
    {choice(<<x, y>>) :
        x \in {strA, seqADigits, digits, failBoom},
        y \in {strAnyCase, letters, seqADigits, succeedV}}
    \cup {choice(<<>>), choice(<<strComma, seqADigits, strA>>), choice(<<letters, strAnyCase>>)}

Separated ==
    {sepBy(x, y) : x \in {strComma, succeedV, seqCommaA}, y \in {digits, strA, succeedV, seqADigits}}
    \cup {sepBy1(x, y) : x \in {strComma, succeedV, seqCommaA},
                         y \in {digits, strA, succeedV, seqADigits}}

Others ==
    {lazy("parens"), lazy("digits"), map(digits, "f"), chain(digits, [f |-> "const", parser |-> strComma]),
     chain(letters, [f |-> "same"]), errorMap(strA, "e"), errorMap(digits, "e"),
     contextual(genTwo), contextual(genBad),
     between(strA, strA, digits),
     boolean(strX), errorMap(seqADigits, "e"), map(seqADigits, "f"),
     chain(seqADigits, [f |-> "const", parser |-> strComma]),
     chain(digits, [f |-> "contextual", generatorFn |-> genThrows]),
     chain(strA, [f |-> "same"]),
     between(str(<<"(">>, TRUE), str(<<")">>, TRUE), digits)}

Pool ==
    Atoms \cup {many(x) : x \in Bodies} \cup {many1(x) : x \in Bodies}
    \cup {boolean(x) : x \in Bodies} \cup Sequences \cup Choices \cup Separated \cup Others

(***************************************************************************)
(* The state machine: a caller builds a parser, runs it on an input, and   *)
(* may hand the returned state to the transformer of another parser.       *)
(***************************************************************************)
VARIABLES
    parser,        \* the Parser last called, as it is after the call
    prevParser,    \* the same Parser as it was before the call
    parserState,   \* the state the transformer was called with
    nextState,     \* the state it returned
    status,        \* "none" before the call, "running", "ok", "hang", "throw"
    threaded,      \* the returned state was handed to a second transformer
    loop,          \* the locals of many's while loop while it runs
    built,         \* the Parser last called, as it was when it was built
    reran          \* the Parser was run a second time

vars == <<parser, prevParser, parserState, nextState, status, threaded, loop, built, reran>>

Idle == [nextState |-> initialState, results |-> <<>>, done |-> FALSE]

Init ==
    /\ parser \in Pool
    /\ prevParser = parser
    /\ parserState = initialState
    /\ nextState = initialState
    /\ status = "none"
    /\ threaded = FALSE
    /\ loop = Idle
    /\ built = parser
    /\ reran = FALSE

\* the effect of one call of the transformer of p on state st
Call(p, st) ==
    LET r == Apply(p, st)
    IN  /\ prevParser' = p
        /\ parser' = r.p
        /\ parserState' = st
        /\ nextState' = IF r.status = "ok" THEN r.st ELSE st
        /\ status' = r.status

\* Parser.run(target)
Run(target) ==
    /\ status = "none"
    /\ Call(parser, [initialState EXCEPT !.target = target])
    /\ UNCHANGED <<threaded, loop, built, reran>>

\* a second Parser.run(target) of the parser that was run
ReRun(target) ==
    /\ status = "ok"
    /\ ~threaded
    /\ ~reran
    /\ Call(parser, [initialState EXCEPT !.target = target])
    /\ reran' = TRUE
    /\ UNCHANGED <<threaded, loop, built>>

\* p.parserStateTransformerFn(nextState), p a parser built for it
Thread(p) ==
    /\ status = "ok"
    /\ ~threaded
    /\ ~reran
    /\ Call(p, nextState)
    /\ threaded' = TRUE
    /\ built' = p
    /\ UNCHANGED <<loop, reran>>

\* many(P).run(target) up to the while loop
ManyBegin(target) ==
    /\ status = "none"
    /\ parser.kind = "many"
    /\ status' = "running"
    /\ prevParser' = parser
    /\ parserState' = [initialState EXCEPT !.target = target]
    /\ loop' = [nextState |-> parserState', results |-> <<>>, done |-> FALSE]
    /\ UNCHANGED <<parser, nextState, threaded, built, reran>>

\* one iteration of many's while loop
ManyIterate ==
    /\ status = "running"
    /\ ~loop.done
    /\ Len(loop.results) < MaxIter
    /\ LET r == Apply(parser.parser, loop.nextState)
           testState == r.st
       IN  /\ parser' = [parser EXCEPT !.parser = r.p]
           /\ IF r.status # "ok"
              THEN /\ status' = r.status
                   /\ UNCHANGED loop
              ELSE /\ UNCHANGED status
                   /\ loop' = IF ~testState.isError
                              THEN [loop EXCEPT !.results = Append(@, testState.result),
                                                !.nextState = testState]
                              ELSE [loop EXCEPT !.done = TRUE]
    /\ UNCHANGED <<prevParser, parserState, nextState, threaded, built, reran>>

\* the return of many after its loop
ManyReturn ==
    /\ status = "running"
    /\ loop.done
    /\ nextState' = updateParserResult(loop.nextState, ListVal(loop.results))
    /\ status' = "ok"
    /\ loop' = Idle
    /\ UNCHANGED <<parser, prevParser, parserState, threaded, built, reran>>

Next ==
    \/ \E target \in Targets : Run(target)
    \/ \E target \in {t \in Targets : Len(t) <= MaxRerunLen} : ReRun(target)
    \/ \E p \in Pool : Thread(p)
    \/ \E target \in Targets : ManyBegin(target)
    \/ ManyIterate
    \/ ManyReturn

Spec == Init /\ [][Next]_vars

(***************************************************************************)
(* Properties.                                                             *)
(***************************************************************************)
\* a call of the transformer of a parser of the given kind has returned
Returned(kind) == status = "ok" /\ prevParser.kind = kind

\* the same, called with a state that is not an error
ReturnedFromGood(kind) == Returned(kind) /\ ~parserState.isError

\* the call of P repeated k times from st, each from the state the last returned
RECURSIVE AfterK(_, _, _)
AfterK(P, st, k) ==
    IF k = 0 THEN Ret(st, P)
    ELSE LET a == AfterK(P, st, k - 1) IN Apply(a.p, a.st)

\* C1: many1(P) has the mechanics of many(P): from a state that is not an
\* error, when P succeeds k >= 1 times and then fails, many1(P) returns a
\* success with the list of the k results at the index after the k-th
\* success; when k = 0 it returns a failure at the original index.
C1_Many1LikeMany ==
    ReturnedFromGood("many1") =>
        LET m == Apply(many(prevParser.parser), parserState)
        IN  m.status = "ok" =>
                IF Len(m.st.result.l) >= 1
                THEN /\ ~nextState.isError
                     /\ nextState.result = m.st.result
                     /\ nextState.index = m.st.index
                ELSE /\ nextState.isError
                     /\ nextState.index = parserState.index

\* C2: many(P) treats a success of P that leaves the index unchanged as the
\* end of its loop: after an iteration in which P succeeded without moving
\* the cursor, the loop is done.
C2_ZeroWidthSuccessEndsLoop ==
    [][(/\ status = "running"
        /\ status' = "running"
        /\ Len(loop'.results) = Len(loop.results) + 1
        /\ loop'.nextState.index = loop.nextState.index)
       => loop'.done]_vars

\* the state of the first step of parsers, threaded from st, that failed;
\* the last state when no step failed
RECURSIVE FirstFailed(_, _, _)
FirstFailed(parsers, i, st) ==
    IF i > Len(parsers) THEN st
    ELSE LET r == Apply(parsers[i], st)
         IN  IF r.st.isError THEN r.st ELSE FirstFailed(parsers, i + 1, r.st)

\* C3: when a step of sequenceOf fails, sequenceOf returns exactly the state
\* that the first failing step produced.
C3_SequenceReturnsFirstFailure ==
    ReturnedFromGood("sequenceOf") =>
        LET f == FirstFailed(prevParser.parsers, 1, parserState)
        IN  f.isError => nextState = f

\* the parsers C4 names
IsContextual(p) == p.kind = "chain" /\ p.fn.f = "contextual"
IsBetween(p) == p.kind = "map" /\ p.fn = "second"
NamedByC4(p) ==
    \/ p.kind \in {"str", "regex", "letters", "digits", "sequenceOf", "choice", "many",
                   "many1", "sepBy", "sepBy1", "boolean", "lazy", "fail", "succeed"}
    \/ IsContextual(p)
    \/ IsBetween(p)

\* C4: a transformer other than an errorMap wrapper returns an error state
\* unchanged.
C4_ErrorStateUnchanged ==
    (status = "ok" /\ parserState.isError /\ NamedByC4(prevParser))
        => nextState = parserState

\* C5: a run that returns a success returns an index within the input.
C5_IndexWithinInput ==
    (status = "ok" /\ ~threaded /\ ~nextState.isError)
        => (0 <= nextState.index /\ nextState.index <= Len(nextState.target))

\* the state an alternative produces from the state the choice was called with
Alternative(i) == Apply(prevParser.parsers[i], parserState).st

\* the i-th alternative is the first that succeeds
FirstMatch(i) ==
    /\ ~Alternative(i).isError
    /\ \A j \in 1..(i - 1) : Alternative(j).isError

\* C6: choice returns exactly the state of the first alternative, in list
\* order, that succeeds from the original state, and the alternatives after
\* it are not run (their closures are as they were).
C6_ChoiceFirstMatchWins ==
    ReturnedFromGood("choice") =>
        \A i \in 1..Len(prevParser.parsers) :
            FirstMatch(i) =>
                /\ nextState = Alternative(i)
                /\ \A j \in (i + 1)..Len(prevParser.parsers) :
                       parser.parsers[j] = prevParser.parsers[j]

\* C6 witness: a choice returned the state of its first alternative while a
\* later alternative would have succeeded with another state, and running
\* it would have changed its closure.
C6_Witness ==
    /\ ReturnedFromGood("choice")
    /\ \E i \in 1..Len(prevParser.parsers) :
           /\ FirstMatch(i)
           /\ \E j \in (i + 1)..Len(prevParser.parsers) :
                  /\ ~Alternative(j).isError
                  /\ Alternative(j) # Alternative(i)
                  /\ Apply(prevParser.parsers[j], parserState).p # prevParser.parsers[j]

\* C7: when every alternative fails, choice returns a failure whose index
\* and result are those of the state it was called with.
C7_ChoiceFailureAtOrigin ==
    (/\ ReturnedFromGood("choice")
     /\ \A i \in 1..Len(prevParser.parsers) : Alternative(i).isError)
        => /\ nextState.isError
           /\ nextState.index = parserState.index
           /\ nextState.result = parserState.result

\* C7 witness: every alternative failed, and the last one failed after it
\* had moved the cursor and replaced the result.
C7_Witness ==
    /\ ReturnedFromGood("choice")
    /\ nextState.isError
    /\ Len(prevParser.parsers) >= 1
    /\ LET last == Alternative(Len(prevParser.parsers))
       IN  /\ last.index > parserState.index
           /\ last.result # parserState.result

\* the state after the k-th application of the repeated parser
Repeated(k) == AfterK(prevParser.parser, parserState, k).st

\* C8: many(P) returns a success whose result lists the results of the k
\* successive successes of P and whose index is the one after the k-th; the
\* attempt that failed leaves no trace; k = 0 gives the empty list at the
\* original index.
C8_ManyReturnsLastGood ==
    ReturnedFromGood("many") =>
        \E k \in 0..MaxIter :
            /\ \A i \in 1..k : ~Repeated(i).isError
            /\ Repeated(k + 1).isError
            /\ nextState = [Repeated(k) EXCEPT
                               !.result = ListVal([i \in 1..k |-> Repeated(i).result])]
            /\ ~nextState.isError
            /\ k = 0 => (nextState.index = parserState.index /\ nextState.result = ListVal(<<>>))

\* C8 witness: many returned after at least one success, and the attempt
\* that failed had moved the cursor before it failed.
C8_Witness ==
    /\ ReturnedFromGood("many")
    /\ Len(nextState.result.l) >= 1
    /\ Apply(prevParser.parser, nextState).st.isError
    /\ Apply(prevParser.parser, nextState).st.index > nextState.index

\* the state after n alternating applications, value first, of the value
\* and separator parsers of the sepBy or sepBy1 that was called
RECURSIVE Alternating(_)
Alternating(n) ==
    IF n = 0 THEN parserState
    ELSE Apply(IF n % 2 = 1 THEN prevParser.valueParser ELSE prevParser.separatorParser,
               Alternating(n - 1)).st

\* the m-th application is the first that fails
FirstFailure(m) ==
    /\ Alternating(m).isError
    /\ \A n \in 1..(m - 1) : ~Alternating(n).isError

\* the results of the values matched before the m-th application
ValuesBefore(m) == ListVal([i \in 1..(m \div 2) |-> Alternating(2 * i - 1).result])

\* C9: sepBy returns a success with the list of the value results matched
\* before the first failure of either parser, at the index reached before
\* the failed attempt: with no value the empty list at the original index,
\* after a failed separator the index after the last value, after a failed
\* value the index after the separator that preceded it.
C9_SepByAlternates ==
    ReturnedFromGood("sepBy") =>
        \E m \in 1..(2 * MaxIter + 1) :
            /\ FirstFailure(m)
            /\ ~nextState.isError
            /\ nextState.result = ValuesBefore(m)
            /\ nextState.index = Alternating(m - 1).index
            /\ m = 1 => (nextState.index = parserState.index /\ nextState.result = ListVal(<<>>))
            /\ (m > 1 /\ m % 2 = 1) =>
                   (/\ ~Alternating(m - 1).isError
                    /\ nextState.index = Apply(prevParser.separatorParser,
                                               Alternating(m - 2)).st.index)

\* C9 witness: sepBy returned after a separator matched and the value after
\* it failed, with the index after that separator.
C9_Witness ==
    /\ ReturnedFromGood("sepBy")
    /\ \E m \in {3, 5} :
           /\ FirstFailure(m)
           /\ Alternating(m - 1).index > Alternating(m - 2).index
           /\ nextState.index = Alternating(m - 1).index

Inner == Apply(prevParser.parser, parserState)

\* Parser.run(target) builds this state
RunState(target) == [initialState EXCEPT !.target = target]

\* C11: boolean(P) never reports failure from a state that is not an error:
\* when P succeeds it returns P's state, when P fails it returns the state
\* it was called with, result set to null; boolean(str("x")) on "y" is a
\* success with result null at index 0.
C11_BooleanNeverFails ==
    ReturnedFromGood("boolean") =>
        /\ ~nextState.isError
        /\ IF ~Inner.st.isError THEN nextState = Inner.st
           ELSE nextState = [parserState EXCEPT !.result = Null]
        /\ (prevParser = boolean(strX) /\ parserState = RunState(<<"y">>))
               => (nextState.result = Null /\ nextState.index = 0)

\* C11 witness: boolean returned after its parser had moved the cursor and
\* replaced the result before it failed.
C11_Witness ==
    /\ ReturnedFromGood("boolean")
    /\ Inner.st.isError
    /\ Inner.st.index > parserState.index
    /\ nextState.index = parserState.index

\* t continues with s from cursor i
ContinuesWith(t, i, s) ==
    /\ i + Len(s) <= Len(t)
    /\ \A k \in 1..Len(s) : t[i + k] = s[k]

\* C12: case-sensitive str(s) at cursor i of target t fails with the index
\* unchanged when no input remains, for every s; else succeeds with index
\* i + length(s) and result s when t continues with s; else fails with index
\* and result unchanged.  str("ab") on "ab" is a success with index 2 and
\* result "ab", on "xy" a failure at index 0.
C12_StrCaseSensitive ==
    (ReturnedFromGood("str") /\ prevParser.caseSensitive) =>
        LET t == parserState.target
            i == parserState.index
            s == prevParser.s
        IN  /\ IF i >= Len(t)
               THEN nextState.isError /\ nextState.index = i
               ELSE IF ContinuesWith(t, i, s)
               THEN /\ ~nextState.isError
                    /\ nextState.index = i + Len(s)
                    /\ nextState.result = StrVal(s)
               ELSE /\ nextState.isError
                    /\ nextState.index = i
                    /\ nextState.result = parserState.result
            /\ (prevParser = strAb /\ parserState = RunState(<<"a", "b">>))
                   => (/\ ~nextState.isError
                       /\ nextState.index = 2
                       /\ nextState.result = StrVal(<<"a", "b">>))
            /\ (prevParser = strAb /\ parserState = RunState(<<"x", "y">>))
                   => (nextState.isError /\ nextState.index = 0)

\* C12 witness: str("") failed at the end of an input that a parser before
\* it had consumed.
C12_Witness ==
    /\ ReturnedFromGood("str")
    /\ prevParser = strEmpty
    /\ parserState.index = Len(parserState.target)
    /\ parserState.index >= 1
    /\ nextState.isError

\* C13: in case-insensitive mode a match of str(s, false) sets the result to
\* s as the caller supplied it and advances the index by the length of s.
C13_ResultIsSuppliedLiteral ==
    (/\ ReturnedFromGood("str")
     /\ ~built.caseSensitive
     /\ ~nextState.isError)
        => /\ nextState.result = StrVal(built.s)
           /\ nextState.index = parserState.index + Len(built.s)

\* digits.chain(n => str(","))
digitsThenComma == chain(digits, [f |-> "const", parser |-> strComma])

\* the run of digits.chain(n => str(",")) on "42," has returned
RanDigitsThenComma ==
    /\ status = "ok"
    /\ prevParser = digitsThenComma
    /\ parserState = RunState(<<"4", "2", ",">>)

\* C14 as stated: digits.chain(n => str(",")) on "42," returns a success
\* whose index is 4.
C14_ChainExampleIndex4 ==
    RanDigitsThenComma => (~nextState.isError /\ nextState.index = 4)

\* C14 as amended: digits.chain(n => str(",")) on "42," returns a success
\* whose index is 3, the length of the input, with result ",".
C14_ChainExampleIndex3 ==
    RanDigitsThenComma =>
        /\ ~nextState.isError
        /\ nextState.index = 3
        /\ nextState.result = StrVal(<<",">>)

\* C14 witness: that run has returned.
C14_Witness == RanDigitsThenComma /\ ~nextState.isError

\* C15: P.chain(fn): when P fails, P's failure state is returned and fn is
\* not called (a fn that throws does not throw); when P succeeds, the parser
\* fn returns for P's result is applied to P's state, and the call ends as
\* that application ends.
C15_ChainIsBind ==
    (/\ prevParser.kind = "chain"
     /\ status \in {"ok", "throw"}
     /\ ~parserState.isError
     /\ Inner.status = "ok")
        => IF Inner.st.isError
           THEN status = "ok" /\ nextState = Inner.st
           ELSE LET selected == ChainFn(prevParser.fn, Inner.st.result)
                    second == Apply(selected.parser, Inner.st)
                IN  IF selected.thrown THEN status = "throw"
                    ELSE /\ status = second.status
                         /\ status = "ok" => nextState = second.st

\* C15 witness: a chain whose fn builds its parser from P's result returned
\* a success past the index P reached.
C15_Witness ==
    /\ Returned("chain")
    /\ prevParser.fn.f = "same"
    /\ ~parserState.isError
    /\ ~nextState.isError
    /\ ~Inner.st.isError
    /\ Inner.st.index > parserState.index
    /\ nextState.index > Inner.st.index

\* C16: P.map(fn) returns P's failure state unchanged; on success it
\* returns P's state with the result replaced by fn of P's result: index,
\* target and error are P's and isError is false.
C16_MapChangesResultOnly ==
    (prevParser.kind = "map" /\ status = "ok" /\ ~parserState.isError) =>
        IF Inner.st.isError THEN nextState = Inner.st
        ELSE /\ nextState.index = Inner.st.index
             /\ nextState.target = Inner.st.target
             /\ nextState.error = Inner.st.error
             /\ ~nextState.isError
             /\ nextState.result = MapFn(prevParser.fn, Inner.st.result)

\* C16 witness: a map whose parser moved the cursor returned a success.
C16_Witness ==
    /\ Returned("map")
    /\ prevParser.fn = "f"
    /\ ~parserState.isError
    /\ ~nextState.isError
    /\ nextState.index > parserState.index

\* C17: P.errorMap(fn) returns P's success state unchanged; on failure it
\* returns a failure with P's index and result and the error fn(P's error,
\* P's index).
C17_ErrorMapRewritesErrorOnly ==
    (prevParser.kind = "errorMap" /\ status = "ok" /\ ~parserState.isError) =>
        IF ~Inner.st.isError THEN nextState = Inner.st
        ELSE /\ nextState.isError
             /\ nextState.index = Inner.st.index
             /\ nextState.result = Inner.st.result
             /\ nextState.target = Inner.st.target
             /\ nextState.error = ErrorFn(prevParser.fn, Inner.st.error, Inner.st.index)

\* C17 witness: an errorMap returned the failure of a parser that had moved
\* the cursor and replaced the result before it failed.
C17_Witness ==
    /\ Returned("errorMap")
    /\ ~parserState.isError
    /\ nextState.isError
    /\ nextState.index > parserState.index
    /\ nextState.result # parserState.result

\* the states left, content and right produce, each from the state of the
\* one before, in the between that was called
AfterLeft == Apply(prevParser.parser.parsers[1], parserState).st
AfterContent == Apply(prevParser.parser.parsers[2], AfterLeft).st
AfterRight == Apply(prevParser.parser.parsers[3], AfterContent).st

\* between(str("("), str(")"))(digits)
parenthesised == between(str(<<"(">>, TRUE), str(<<")">>, TRUE), digits)

\* C18: between(left, right)(content) succeeds exactly when left, content
\* and right succeed in that order, with content's result at the index
\* after right; between(str("("), str(")"))(digits) on "(42)" is a success
\* with result "42" and index 4.
C18_BetweenKeepsContent ==
    (IsBetween(prevParser) /\ status = "ok" /\ ~parserState.isError) =>
        /\ ~nextState.isError <=>
               (~AfterLeft.isError /\ ~AfterContent.isError /\ ~AfterRight.isError)
        /\ ~nextState.isError =>
               (/\ nextState.result = AfterContent.result
                /\ nextState.index = AfterRight.index)
        /\ (prevParser = parenthesised /\ parserState = RunState(<<"(", "4", "2", ")">>))
               => (/\ ~nextState.isError
                   /\ nextState.result = StrVal(<<"4", "2">>)
                   /\ nextState.index = 4)

\* C18 witness: the run of between(str("("), str(")"))(digits) on "(42)"
\* has returned.
C18_Witness ==
    /\ status = "ok"
    /\ prevParser = parenthesised
    /\ parserState = RunState(<<"(", "4", "2", ")">>)
    /\ nextState.index = 4

\* the number of "(" the target starts with, and of ")" that follow them
Opening == PrefixLen(parserState.target, {"("})
Closing == PrefixLen(slice(parserState.target, Opening), {")"})

\* C19: the run of the grammar P = choice([sequenceOf([str("("), lazy(() =>
\* P), str(")")]), sequenceOf([str("("), str(")")])]) returns on every
\* input: a success exactly when the input starts with n >= 1 "(" followed
\* by n ")" or more, then at index 2n; a failure on "(()", a success with
\* index 4 on "(())".
C19_LazyParens ==
    (prevParser = lazy("parens") /\ status # "none" /\ parserState.index = 0
     /\ ~parserState.isError) =>
        /\ status = "ok"
        /\ ~nextState.isError <=> (Opening >= 1 /\ Closing >= Opening)
        /\ ~nextState.isError => nextState.index = 2 * Opening
        /\ parserState.target = <<"(", "(", ")">> => nextState.isError
        /\ parserState.target = <<"(", "(", ")", ")">> =>
               (~nextState.isError /\ nextState.index = 4)

\* C19 witness: the run of the grammar on "(())" has returned.
C19_Witness ==
    /\ status = "ok"
    /\ prevParser = lazy("parens")
    /\ parserState = RunState(<<"(", "(", ")", ")">>)
    /\ ~nextState.isError

\* C20: the state a run of a parser returns does not depend on the runs of
\* that parser before it: a second run returns the state that the run of
\* the parser as it was built returns on the same input.
C20_RunsAreIndependent ==
    (status = "ok" /\ reran) => nextState = Apply(built, parserState).st

\* the generator of the contextual parser that was called, and the state its
\* first step is applied to
Generator == prevParser.fn.generatorFn
BeforeSteps == [parserState EXCEPT !.result = Null]

\* the state after the k-th yielded parser, the yielded parsers applied in
\* the order of the yields, each to the state the one before it returned
RECURSIVE StepState(_, _, _)
StepState(yields, k, st) ==
    IF k = 0 THEN st ELSE Apply(yields[k], StepState(yields, k - 1, st)).st

\* the first k yields are parsers and each succeeded
RECURSIVE StepsSucceeded(_, _, _)
StepsSucceeded(yields, k, st) ==
    \/ k = 0
    \/ /\ StepsSucceeded(yields, k - 1, st)
       /\ yields[k].kind # "notAParser"
       /\ ~StepState(yields, k, st).isError

\* the k-th yield is the first step that did not succeed, and it is a parser
\* that failed
FailedAt(yields, k, st) ==
    /\ StepsSucceeded(yields, k - 1, st)
    /\ yields[k].kind # "notAParser"
    /\ StepState(yields, k, st).isError

\* the k-th yield is reached and is not a parser
NotAParserAt(yields, k, st) ==
    /\ StepsSucceeded(yields, k - 1, st)
    /\ yields[k].kind = "notAParser"

\* the value the generator returns when it has received the results of all
\* its steps
Returns(generatorFn, st) ==
    IF generatorFn.returns = "values"
    THEN ListVal([i \in 1..Len(generatorFn.yields) |->
                     StepState(generatorFn.yields, i, st).result])
    ELSE Val(generatorFn.returns)

\* a call of the transformer of contextual(generatorFn), with a state that is
\* not an error, has ended
ContextualRan ==
    /\ IsContextual(prevParser)
    /\ prevParser.parser = succeed(Null)
    /\ status \in {"ok", "throw"}
    /\ ~parserState.isError

\* C21: contextual(gen) is the nested chain of its steps: the yielded parsers
\* are applied in yield order, each from the state the one before it returned
\* (the first from the state contextual was called with, its result null);
\* each step's result is the value of its yield; when gen returns v, the call
\* returns a success with result v at the index after the last step; when a
\* yielded parser fails, its failure state is returned and no later step of
\* gen is run (a later yield that is not a parser does not throw).
C21_ContextualIsNestedChain ==
    ContextualRan =>
        LET yields == Generator.yields
            n == Len(yields)
        IN  /\ StepsSucceeded(yields, n, BeforeSteps) =>
                    /\ status = "ok"
                    /\ nextState = updateParserResult(StepState(yields, n, BeforeSteps),
                                                      Returns(Generator, BeforeSteps))
            /\ \A k \in 1..n :
                   FailedAt(yields, k, BeforeSteps) =>
                       /\ status = "ok"
                       /\ nextState = StepState(yields, k, BeforeSteps)

\* C21 witness: a contextual parser of two steps returned the results of both
\* at the index after the second, the first step having started past index 0.
C21_Witness ==
    /\ ContextualRan
    /\ status = "ok"
    /\ prevParser = contextual(genTwo)
    /\ parserState.index > 0
    /\ ~nextState.isError
    /\ nextState.index = parserState.index + 2
    /\ Len(nextState.result.l) = 2

\* C22: a yield of a contextual step that is not a Parser ends the call with
\* a throw, not with a returned state; every other call that ends returns a
\* state, failures (end of input, no match, zero matches) included: a call
\* throws exactly when a yield that is not a Parser is reached.
C22_OnlyNonParserYieldThrows ==
    status \in {"ok", "throw"} =>
        (status = "throw" <=>
            /\ IsContextual(prevParser)
            /\ Inner.status = "ok"
            /\ ~Inner.st.isError
            /\ \E k \in 1..Len(Generator.yields) :
                   NotAParserAt(Generator.yields, k, Inner.st))

\* C22 witness: the first step of a contextual parser succeeded, the second
\* yield was not a Parser, and the call threw.
C22_Witness ==
    /\ status = "throw"
    /\ prevParser = contextual(genBad)
    /\ ~Apply(strA, parserState).st.isError

\* the combinators that return the state they were called with, or the state
\* of their last success, when a branch of theirs fails
Resetting == {"choice", "boolean", "many", "many1", "sepBy", "sepBy1"}

\* the indices of the states that the parsers prevParser applies returned to
\* it, for the combinators that are not resetting
ReachedInside ==
    CASE prevParser.kind = "sequenceOf" ->
           {StepState(prevParser.parsers, k, parserState).index :
               k \in 0..Len(prevParser.parsers)}
      [] prevParser.kind \in {"map", "chain", "errorMap"} -> {Inner.st.index}
      [] prevParser.kind = "lazy" ->
           {Apply(Grammar(prevParser.parserThunk), parserState).st.index}
      [] OTHER -> {}

\* C23: the cursor never regresses on success and the target never changes:
\* a call with a state that is not an error returns a state with the target
\* it was called with, and, when it succeeds, an index not below the index
\* it was called with; only choice, boolean, many, many1, sepBy and sepBy1
\* return an index below one that a parser they applied had reached.
C23_CursorNeverRegresses ==
    (status = "ok" /\ ~parserState.isError) =>
        /\ nextState.target = parserState.target
        /\ ~nextState.isError => nextState.index >= parserState.index
        /\ prevParser.kind \notin Resetting =>
               \A i \in ReachedInside : nextState.index >= i

\* C23 witness: a sequence called past index 0 succeeded and moved the
\* cursor, its second step having started where the first had stopped.
C23_Witness ==
    /\ ReturnedFromGood("sequenceOf")
    /\ Len(prevParser.parsers) >= 2
    /\ parserState.index > 0
    /\ ~nextState.isError
    /\ StepState(prevParser.parsers, 1, parserState).index > parserState.index
    /\ nextState.index > StepState(prevParser.parsers, 1, parserState).index

\* C24: the failure flag is sticky: a call of any parser with a state whose
\* isError is true returns a state with isError true and the same index; the
\* combinators that absorb a failure of their own branch (choice, boolean,
\* many, sepBy) do not absorb one they receive.
C24_FailureIsSticky ==
    (status \in {"ok", "throw", "hang"} /\ parserState.isError) =>
        /\ status = "ok"
        /\ nextState.isError
        /\ nextState.index = parserState.index

\* C24 witness: an absorbing combinator was called with a failure state past
\* index 0.
C24_Witness ==
    /\ status = "ok"
    /\ parserState.isError
    /\ parserState.index > 0
    /\ prevParser.kind \in {"choice", "boolean", "many", "sepBy"}

\* the k-th step of the sequence is the first that failed
SequenceFailedAt(k) == FailedAt(prevParser.parsers, k, parserState)

\* the state the k-th step of the sequence returned
SequenceStep(k) == StepState(prevParser.parsers, k, parserState)

\* C25 as stated: when sequenceOf fails at its k-th step, the failure it
\* returns has the index reached after the k-1 steps that succeeded, the
\* index the failing step was called with.
C25_FailureWhereStepStarted ==
    ReturnedFromGood("sequenceOf") =>
        \A k \in 1..Len(prevParser.parsers) :
            SequenceFailedAt(k) =>
                /\ nextState.isError
                /\ nextState.index = SequenceStep(k - 1).index

\* the parsers that fail at the index they were called with
FailsInPlace == {"str", "regex", "letters", "digits", "fail", "choice"}

\* C25 amended: when sequenceOf fails at its k-th step, the failure it
\* returns has the index of the failure state of that step: not below the
\* index reached after the k-1 steps that succeeded, equal to it when the
\* failing step is one that fails in place, and beyond it when the failing
\* step consumed input before it failed; sequenceOf does no reset.
C25_FailureWhereStepFailed ==
    ReturnedFromGood("sequenceOf") =>
        \A k \in 1..Len(prevParser.parsers) :
            SequenceFailedAt(k) =>
                /\ nextState.isError
                /\ nextState.index = SequenceStep(k).index
                /\ nextState.index >= SequenceStep(k - 1).index
                /\ prevParser.parsers[k].kind \in FailsInPlace =>
                       nextState.index = SequenceStep(k - 1).index

\* C25 witness: a sequence failed at its second step, past the index its
\* first step had reached, which was past the index the sequence started at.
C25_Witness ==
    /\ ReturnedFromGood("sequenceOf")
    /\ Len(prevParser.parsers) >= 2
    /\ SequenceFailedAt(2)
    /\ SequenceStep(1).index > parserState.index
    /\ nextState.index > SequenceStep(1).index

====
